---- MODULE Spec2Model ----
(***************************************************************************)
(* litchitool: ingestion of waypoint records (csv_format.rs) into a        *)
(* LitchiMission (mission.rs), and its encoding by to_binary.              *)
(*                                                                         *)
(* Conventions of the model                                                *)
(*  - a CSV field is its text, classified by what Rust's FromStr makes of  *)
(*    it: an integer literal, a decimal literal, the literal NaN, or text  *)
(*    no numeric parser accepts;                                           *)
(*  - an f32/f64 value is [nan, v] with v in thousandths, so that          *)
(*    StayFor(param / 1000.) is representable; NaN compares unequal to     *)
(*    everything, itself included, as IEEE-754 and PartialEq do;           *)
(*  - a usize value is held as its 64-bit two's-complement reading: a      *)
(*    negative k stands for 2^64 + k, so usize::MAX is -1; UsizeLt is the  *)
(*    unsigned order;                                                      *)
(*  - `build` says whether overflow checks are compiled in (the debug      *)
(*    profile: arithmetic overflow panics) or not (the release profile:    *)
(*    it wraps).                                                           *)
(***************************************************************************)
EXTENDS Integers, Sequences, FiniteSets, TLC

VARIABLES input, build, idx, waypoints, pois, pc, result, mission, copy, args, view, binary

vars == <<input, build, idx, waypoints, pois, pc, result, mission, copy, args, view, binary>>

\* Longest input (number of reader items) made of the records of PoiRows.
MaxRows == 3

\* Longest input made of the records of ErrRows, of ActRows or of PhotoRows.
MaxErrRows == 2

\* Longest waypoint sequence and longest POI sequence handed to LitchiMission::new.
MaxWps == 2

MaxPois == 2

(***************************************************************************)
(* error.rs: LitchiError                                                   *)
(***************************************************************************)
LErr(e, n, m, s) == [e |-> e, n |-> n, m |-> m, s |-> s]

NoError == LErr("none", 0, 0, "")

CsvError == LErr("CsvError", 0, 0, "")

IncorrectRecordLength(got, expected) == LErr("IncorrectRecordLength", got, expected, "")

CsvMissingField(i) == LErr("CsvMissingField", i, 0, "")

ParseFloatError == LErr("ParseFloatError", 0, 0, "")

ParseIntError == LErr("ParseIntError", 0, 0, "")

InvalidActionType(n) == LErr("InvalidActionType", n, 0, "")

TryFromPrimitiveError(s) == LErr("TryFromPrimitiveError", 0, 0, s)

InvalidMission == LErr("InvalidMission", 0, 0, "")

(***************************************************************************)
(* Field text and the numeric parsers parse_chunk! calls (str::parse)      *)
(***************************************************************************)
IntField(n) == [k |-> "int", v |-> n]

\* a decimal literal with a fractional part, v in thousandths
DecField(v) == [k |-> "dec", v |-> v]

NaNField == [k |-> "nan", v |-> 0]

BadField == [k |-> "bad", v |-> 0]

F(n) == [nan |-> FALSE, v |-> n * 1000]

NaN == [nan |-> TRUE, v |-> 0]

FloatEq(a, b) == ~a.nan /\ ~b.nan /\ a.v = b.v

FloatNe(a, b) == ~FloatEq(a, b)

FloatGt(a, b) == ~a.nan /\ ~b.nan /\ a.v > b.v

I16Min == -32768

I16Max == 32767

I32Min == -2147483647 - 1

I32Max == 2147483647

\* <f32 as FromStr>, <f64 as FromStr>: integer and decimal literals and NaN parse
ParseFloat(f) ==
    CASE f.k = "int" -> [ok |-> TRUE, fval |-> F(f.v), ival |-> 0, err |-> NoError]
      [] f.k = "dec" -> [ok |-> TRUE, fval |-> [nan |-> FALSE, v |-> f.v], ival |-> 0, err |-> NoError]
      [] f.k = "nan" -> [ok |-> TRUE, fval |-> NaN, ival |-> 0, err |-> NoError]
      [] OTHER -> [ok |-> FALSE, fval |-> F(0), ival |-> 0, err |-> ParseFloatError]

\* <i16 as FromStr>, <i32 as FromStr>: only integer literals in range parse
ParseInt(f, lo, hi) ==
    IF f.k = "int" /\ f.v >= lo /\ f.v <= hi
    THEN [ok |-> TRUE, fval |-> F(0), ival |-> f.v, err |-> NoError]
    ELSE [ok |-> FALSE, fval |-> F(0), ival |-> 0, err |-> ParseIntError]

ParseAs(f, ty) ==
    CASE ty = "f64" -> ParseFloat(f)
      [] ty = "f32" -> ParseFloat(f)
      [] ty = "i32" -> ParseInt(f, I32Min, I32Max)
      [] ty = "i16" -> ParseInt(f, I16Min, I16Max)

\* $record.get($idx).ok_or(CsvMissingField($idx))?.parse()?  (idx is 0-based)
ParseChunkField(fields, i, ty) ==
    IF i + 1 > Len(fields)
    THEN [ok |-> FALSE, fval |-> F(0), ival |-> 0, err |-> CsvMissingField(i)]
    ELSE ParseAs(fields[i + 1], ty)

ACTIONS_OFFSET == 8

ACTIONS_COUNT == 15

ACTIONS_END == ACTIONS_OFFSET + ACTIONS_COUNT * 2

RECORD_LEN == 46

\* the first parse_chunk! of the loop body: (index, type) in parsing order
RowSchema ==
    << <<0, "f64">>, <<1, "f64">>, <<2, "f32">>, <<3, "f32">>, <<4, "f32">>,
       <<5, "i32">>, <<6, "i32">>, <<7, "i32">>,
       <<ACTIONS_END, "i16">>, <<ACTIONS_END + 1, "f32">>, <<ACTIONS_END + 2, "f64">>,
       <<ACTIONS_END + 3, "f64">>, <<ACTIONS_END + 4, "f32">>, <<ACTIONS_END + 5, "i16">>,
       <<ACTIONS_END + 6, "f32">>, <<ACTIONS_END + 7, "f32">> >>

Min(S) == CHOOSE x \in S : \A y \in S : x <= y

\* the error of the first field, in parsing order, that `?` returns on; NoError if none
ParseChunkError(fields) ==
    LET bad == {j \in 1..Len(RowSchema) :
                  ~ParseChunkField(fields, RowSchema[j][1], RowSchema[j][2]).ok}
    IN IF bad = {} THEN NoError
       ELSE ParseChunkField(fields, RowSchema[Min(bad)][1], RowSchema[Min(bad)][2]).err

\* a faulty length check that lets longer records through
RecordLenAtLeast(fields) == Len(fields) >= RECORD_LEN

\* record.len() != 46
RecordLenOk(fields) == Len(fields) = RECORD_LEN

(***************************************************************************)
(* mission.rs: the data model                                              *)
(***************************************************************************)
\* #[derive(TryFromPrimitive)] #[repr(i32)] enum GimbalPitchMode
GimbalPitchModeTryFrom(n) ==
    CASE n = 0 -> [ok |-> TRUE, variant |-> "Disabled", number |-> n]
      [] n = 1 -> [ok |-> TRUE, variant |-> "FocusPOI", number |-> n]
      [] n = 2 -> [ok |-> TRUE, variant |-> "Interpolate", number |-> n]
      [] OTHER -> [ok |-> FALSE, variant |-> "", number |-> n]

\* a faulty decoding that falls back to Absolute for an unmapped code
AltitudeModeTryFromDefaulting(n) ==
    CASE n = 1 -> [ok |-> TRUE, variant |-> "AboveGround", number |-> n]
      [] OTHER -> [ok |-> TRUE, variant |-> "Absolute", number |-> n]

\* #[derive(TryFromPrimitive)] #[repr(i16)] enum AltitudeMode
AltitudeModeTryFrom(n) ==
    CASE n = 0 -> [ok |-> TRUE, variant |-> "Absolute", number |-> n]
      [] n = 1 -> [ok |-> TRUE, variant |-> "AboveGround", number |-> n]
      [] OTHER -> [ok |-> FALSE, variant |-> "", number |-> n]

\* enum Action; f is StayFor's f32, p the i32 of RotateAircraft and TiltCamera
MkAction(a, f, p) == [a |-> a, f |-> f, p |-> p]

\* enum PhotoInterval and Option<PhotoInterval>
NoInterval == [k |-> "None", val |-> F(0)]

Time(t) == [k |-> "Time", val |-> t]

Distance(d) == [k |-> "Distance", val |-> d]

\* Option<usize>
None == [some |-> FALSE, idx |-> 0]

Some(i) == [some |-> TRUE, idx |-> i]

\* struct Coordinate(pub f64, pub f64)
Coordinate(lat, lon) == [lat |-> lat, lon |-> lon]

\* struct POI
POI(lat, lon, alt, mode) ==
    [latitude |-> lat, longitude |-> lon, altitude |-> alt, altitude_mode |-> mode]

\* #[derive(PartialEq)] on POI: field-wise ==, so a NaN field equals nothing
PoiEq(a, b) ==
    /\ FloatEq(a.latitude, b.latitude)
    /\ FloatEq(a.longitude, b.longitude)
    /\ FloatEq(a.altitude, b.altitude)
    /\ a.altitude_mode = b.altitude_mode

\* impl Default for MissionConfig
DefaultConfig ==
    [heading_mode |-> "Manual", finish_action |-> "Rth", path_mode |-> "StraightLines",
     cruising_speed |-> F(8), rc_speed |-> F(14), n_repeat |-> 1, version |-> 11,
     photo_interval |-> NoInterval]

\* the unsigned order of two usize values
UsizeLt(a, b) ==
    CASE a >= 0 /\ b >= 0 -> a < b
      [] a >= 0 /\ b < 0 -> TRUE
      [] a < 0 /\ b >= 0 -> FALSE
      [] OTHER -> a < b

\* a - b on usize: panics on overflow with overflow checks, wraps without
UsizeSub(a, b, bld) ==
    IF UsizeLt(a, b)
    THEN (IF bld = "debug" THEN [panic |-> TRUE, val |-> 0] ELSE [panic |-> FALSE, val |-> a - b])
    ELSE [panic |-> FALSE, val |-> a - b]

\* a faulty validate that accepts index = pois.len()
ValidateInclusive(ws, ps) ==
    \A i \in 1..Len(ws) : ws[i].poi_index.some => ~UsizeLt(Len(ps), ws[i].poi_index.idx)

\* LitchiMission::validate
Validate(ws, ps) ==
    \A i \in 1..Len(ws) : ws[i].poi_index.some => UsizeLt(ws[i].poi_index.idx, Len(ps))

\* a LitchiMission value, or the absence of one
Mission(ws, ps, c) == [present |-> TRUE, waypoints |-> ws, pois |-> ps, config |-> c]

NoMission == [present |-> FALSE, waypoints |-> <<>>, pois |-> <<>>, config |-> DefaultConfig]

\* Result<LitchiMission, LitchiError>
Ok == [kind |-> "Ok", err |-> NoError]

Err(e) == [kind |-> "Err", err |-> e]

NoResult == [kind |-> "none", err |-> NoError]

\* LitchiMission::new
New(ws, ps, c) ==
    IF Validate(ws, ps)
    THEN [result |-> Ok, mission |-> Mission(ws, ps, c)]
    ELSE [result |-> Err(InvalidMission), mission |-> NoMission]

\* #[derive(Default)] on LitchiMission
DefaultMission == Mission(<<>>, <<>>, DefaultConfig)

\* struct Waypoint, as read_from_csv fills it in
Waypoint(coordinates, altitude, altitude_mode, heading, curve_size, gimbal_mode, gimbal_pitch_angle, speed, poi_index, actions, photo_interval, rotation_dir) ==
    [coordinates |-> coordinates, altitude |-> altitude, altitude_mode |-> altitude_mode,
     heading |-> heading, curve_size |-> curve_size, gimbal_mode |-> gimbal_mode,
     gimbal_pitch_angle |-> gimbal_pitch_angle, speed |-> speed, poi_index |-> poi_index,
     actions |-> actions, turn_mode |-> 0, photo_interval |-> photo_interval,
     repeat_actions |-> 1, rotation_dir |-> rotation_dir, stay_time |-> 3,
     max_reach_time |-> 0]

(***************************************************************************)
(* mission.rs: to_binary.  The output is the sequence of the values put    *)
(* into the buffer, each with the width it is written with.                *)
(***************************************************************************)
PutI32(n) == <<[ty |-> "i32", i |-> n, f |-> F(0)]>>

PutI16(n) == <<[ty |-> "i16", i |-> n, f |-> F(0)]>>

PutF32(x) == <<[ty |-> "f32", i |-> 0, f |-> x]>>

PutF64(x) == <<[ty |-> "f64", i |-> 0, f |-> x]>>

\* buf.put_slice(&[0u8; 10])
Padding == [j \in 1..10 |-> [ty |-> "u8", i |-> 0, f |-> F(0)]] \o <<>>

\* the file format signature
Signature == 1818454125

\* buf.put_i16(11)
WrittenVersion == 11

RECURSIVE Concat(_)
\* the effect of a for loop that appends one block per element
Concat(blocks) == IF blocks = <<>> THEN <<>> ELSE Head(blocks) \o Concat(Tail(blocks))

\* #[repr(i32)] enum HeadingMode, as i32
HeadingModeAsI32(m) ==
    CASE m = "Auto" -> 0 [] m = "Initial" -> 1 [] m = "Manual" -> 2 [] m = "Custom" -> 3

\* #[repr(i32)] enum FinishAction, as i32
FinishActionAsI32(m) ==
    CASE m = "None" -> 0 [] m = "Rth" -> 1 [] m = "Land" -> 2 [] m = "BackToFirst" -> 3
      [] m = "Reverse" -> 4

\* #[repr(i32)] enum PathMode, as i32
PathModeAsI32(m) == CASE m = "StraightLines" -> 0 [] m = "CurvedTurns" -> 1

\* #[repr(i32)] enum GimbalPitchMode, as i32
GimbalPitchModeAsI32(m) == CASE m = "Disabled" -> 0 [] m = "FocusPOI" -> 1 [] m = "Interpolate" -> 2

\* #[repr(i16)] enum AltitudeMode, as i16
AltitudeModeAsI16(m) == CASE m = "Absolute" -> 0 [] m = "AboveGround" -> 1

\* f32::clamp(self, min, max): NaN is below nothing and above nothing, and is returned
Clamp(x, min, max) ==
    IF FloatGt(min, x) THEN min ELSE IF FloatGt(x, max) THEN max ELSE x

\* usize::try_into::<i32>().expect(..): the value when it fits, a panic otherwise
TryIntoI32(n) == [panic |-> ~(n >= 0 /\ n <= I32Max), val |-> n]

\* a float to i32 cast of a value given in thousandths of the float: toward zero,
\* saturating, NaN to 0
ThousandthsAsI32(x) ==
    IF x.nan THEN 0
    ELSE IF x.v > I32Max THEN I32Max
    ELSE IF x.v < I32Min THEN I32Min
    ELSE x.v

\* Action::idx_and_param; (stay * 1000.) as i32 is computed on the thousandths StayFor
\* is held in, without the rounding of the f32 product
IdxAndParam(action) ==
    CASE action.a = "StayFor" -> <<0, ThousandthsAsI32(action.f)>>
      [] action.a = "TakePhoto" -> <<1, 0>>
      [] action.a = "StartRecording" -> <<2, 0>>
      [] action.a = "StopRecording" -> <<3, 0>>
      [] action.a = "RotateAircraft" -> <<4, action.p>>
      [] action.a = "TiltCamera" -> <<5, action.p>>

\* lines 170-186: signature, modes, clamped speeds, repetitions, version, padding
Header(config) ==
    PutI32(Signature) \o PutI32(HeadingModeAsI32(config.heading_mode))
    \o PutI32(FinishActionAsI32(config.finish_action))
    \o PutI32(PathModeAsI32(config.path_mode))
    \o PutF32(Clamp(config.cruising_speed, F(-15), F(15)))
    \o PutF32(Clamp(config.rc_speed, F(2), F(15)))
    \o PutI32(config.n_repeat) \o PutI16(WrittenVersion) \o Padding

\* for action in &waypoint.actions { put_i32(action_n); put_i32(param) }
ActionPairs(actions) ==
    Concat([j \in 1..Len(actions) |->
               PutI32(IdxAndParam(actions[j])[1]) \o PutI32(IdxAndParam(actions[j])[2])])

\* a faulty count: the number of action slots of a record instead of the actions held
ActionCountOfSlots(actions) == ACTIONS_COUNT

\* waypoint.actions.len()
ActionCount(actions) == Len(actions)

\* the body of the first loop over the waypoints
WaypointInfo(waypoint) ==
    PutF32(waypoint.altitude) \o PutI32(waypoint.turn_mode) \o PutF32(waypoint.heading)
    \o PutF32(waypoint.speed) \o PutI16(waypoint.stay_time) \o PutI16(waypoint.max_reach_time)
    \o PutF64(waypoint.coordinates.lat) \o PutF64(waypoint.coordinates.lon)
    \o PutF32(waypoint.curve_size) \o PutI32(GimbalPitchModeAsI32(waypoint.gimbal_mode))
    \o PutI32(waypoint.gimbal_pitch_angle)
    \o PutI32(TryIntoI32(ActionCount(waypoint.actions)).val)
    \o PutI32(waypoint.repeat_actions) \o ActionPairs(waypoint.actions)

\* the body of the first loop over the POIs
PoiPositionInfo(poi) == PutF64(poi.latitude) \o PutF64(poi.longitude) \o PutF32(poi.altitude)

\* waypoint.poi_index.map_or(-1, |index| index.try_into().expect(..))
EncodePoiIndex(poi_index) ==
    IF poi_index.some THEN TryIntoI32(poi_index.idx) ELSE [panic |-> FALSE, val |-> -1]

\* the body of the second loop over the waypoints
WaypointAltitudeInfo(waypoint) ==
    PutI16(AltitudeModeAsI16(waypoint.altitude_mode)) \o PutF32(waypoint.altitude)
    \o PutI32(EncodePoiIndex(waypoint.poi_index).val)

\* the body of the second loop over the POIs
PoiAltitudeInfo(poi) == PutI16(AltitudeModeAsI16(poi.altitude_mode)) \o PutF32(poi.altitude)

\* buf.put_i32(8); buf.put_i32(8); buf.put_i32(0)
MagicNumbers == PutI32(8) \o PutI32(8) \o PutI32(0)

\* a faulty closure that writes the distance slot first
SetIntervalSwapped(interval) ==
    CASE interval.k = "Time" -> PutF32(F(-1)) \o PutF32(interval.val)
      [] interval.k = "Distance" -> PutF32(interval.val) \o PutF32(F(-1))
      [] OTHER -> PutF32(F(-1)) \o PutF32(F(-1))

\* the closure set_interval
SetInterval(interval) ==
    CASE interval.k = "Time" -> PutF32(interval.val) \o PutF32(F(-1))
      [] interval.k = "Distance" -> PutF32(F(-1)) \o PutF32(interval.val)
      [] OTHER -> PutF32(F(-1)) \o PutF32(F(-1))

\* the expect() calls of to_binary: a count or a POI index that does not fit in i32
ToBinaryPanics(m) ==
    \/ TryIntoI32(Len(m.waypoints)).panic
    \/ TryIntoI32(Len(m.pois)).panic
    \/ \E j \in 1..Len(m.waypoints) :
          \/ TryIntoI32(ActionCount(m.waypoints[j].actions)).panic
          \/ EncodePoiIndex(m.waypoints[j].poi_index).panic

\* LitchiMission::to_binary, when no expect() fails
ToBinary(m) ==
    Header(m.config)
    \o PutI32(TryIntoI32(Len(m.waypoints)).val)
    \o Concat([j \in 1..Len(m.waypoints) |-> WaypointInfo(m.waypoints[j])])
    \o PutI32(TryIntoI32(Len(m.pois)).val)
    \o Concat([j \in 1..Len(m.pois) |-> PoiPositionInfo(m.pois[j])])
    \o Concat([j \in 1..Len(m.waypoints) |-> WaypointAltitudeInfo(m.waypoints[j])])
    \o Concat([j \in 1..Len(m.pois) |-> PoiAltitudeInfo(m.pois[j])])
    \o MagicNumbers
    \o SetInterval(m.config.photo_interval)
    \o Concat([j \in 1..Len(m.waypoints) |-> SetInterval(m.waypoints[j].photo_interval)])

(***************************************************************************)
(* csv_format.rs: read_from_csv, one record                                *)
(***************************************************************************)
NoAction == MkAction("", F(0), 0)

\* a faulty match that treats every unknown type as the sentinel
ActionOfTypeLenient(t, p) ==
    CASE t = 0 -> [ok |-> TRUE, some |-> TRUE, action |-> MkAction("StayFor", [nan |-> FALSE, v |-> p], 0), err |-> NoError]
      [] t = 1 -> [ok |-> TRUE, some |-> TRUE, action |-> MkAction("TakePhoto", F(0), 0), err |-> NoError]
      [] t = 2 -> [ok |-> TRUE, some |-> TRUE, action |-> MkAction("StartRecording", F(0), 0), err |-> NoError]
      [] t = 3 -> [ok |-> TRUE, some |-> TRUE, action |-> MkAction("StopRecording", F(0), 0), err |-> NoError]
      [] t = 4 -> [ok |-> TRUE, some |-> TRUE, action |-> MkAction("RotateAircraft", F(0), p), err |-> NoError]
      [] t = 5 -> [ok |-> TRUE, some |-> TRUE, action |-> MkAction("TiltCamera", F(0), p), err |-> NoError]
      [] OTHER -> [ok |-> TRUE, some |-> FALSE, action |-> NoAction, err |-> NoError]

\* match action_type { -1 => None, 0 => Some(StayFor(param as f32 / 1000.)), ... n => Err }
ActionOfType(t, p) ==
    CASE t = -1 -> [ok |-> TRUE, some |-> FALSE, action |-> NoAction, err |-> NoError]
      [] t = 0 -> [ok |-> TRUE, some |-> TRUE, action |-> MkAction("StayFor", [nan |-> FALSE, v |-> p], 0), err |-> NoError]
      [] t = 1 -> [ok |-> TRUE, some |-> TRUE, action |-> MkAction("TakePhoto", F(0), 0), err |-> NoError]
      [] t = 2 -> [ok |-> TRUE, some |-> TRUE, action |-> MkAction("StartRecording", F(0), 0), err |-> NoError]
      [] t = 3 -> [ok |-> TRUE, some |-> TRUE, action |-> MkAction("StopRecording", F(0), 0), err |-> NoError]
      [] t = 4 -> [ok |-> TRUE, some |-> TRUE, action |-> MkAction("RotateAircraft", F(0), p), err |-> NoError]
      [] t = 5 -> [ok |-> TRUE, some |-> TRUE, action |-> MkAction("TiltCamera", F(0), p), err |-> NoError]
      [] OTHER -> [ok |-> FALSE, some |-> FALSE, action |-> NoAction, err |-> InvalidActionType(t)]

\* the closure of the map over 0..ACTIONS_COUNT: both fields of the slot are parsed,
\* then the type is matched
DecodeSlot(fields, action_i) ==
    LET ty == ParseChunkField(fields, ACTIONS_OFFSET + action_i * 2, "i32")
        pa == ParseChunkField(fields, ACTIONS_OFFSET + 1 + action_i * 2, "i32")
    IN IF ~ty.ok THEN [ok |-> FALSE, some |-> FALSE, action |-> NoAction, err |-> ty.err]
       ELSE IF ~pa.ok THEN [ok |-> FALSE, some |-> FALSE, action |-> NoAction, err |-> pa.err]
       ELSE ActionOfType(ty.ival, pa.ival)

RECURSIVE CollectActions(_, _)
\* filter_map + collect over the slots from action_i on, when all of them decode
CollectActions(fields, action_i) ==
    IF action_i >= ACTIONS_COUNT THEN <<>>
    ELSE LET d == DecodeSlot(fields, action_i)
         IN (IF d.some THEN <<d.action>> ELSE <<>>) \o CollectActions(fields, action_i + 1)

\* .map(..).filter_map(..).collect::<Result<Vec<_>, _>>(): the first failing slot's
\* error, or the actions of the slots that hold one
DecodeActions(fields) ==
    LET bad == {a \in 0..(ACTIONS_COUNT - 1) : ~DecodeSlot(fields, a).ok}
    IN IF bad # {}
       THEN [ok |-> FALSE, actions |-> <<>>, err |-> DecodeSlot(fields, Min(bad)).err]
       ELSE [ok |-> TRUE, actions |-> CollectActions(fields, 0), err |-> NoError]

\* a faulty resolution that prefers the distance interval
ResolvePhotoIntervalDistanceFirst(t, d) ==
    IF FloatGt(d, F(0)) THEN Distance(d)
    ELSE IF FloatGt(t, F(0)) THEN Time(t)
    ELSE NoInterval

\* Some(interval).filter(|interval| *interval > 0.) for both, then time.or_else(distance)
ResolvePhotoInterval(t, d) ==
    IF FloatGt(t, F(0)) THEN Time(t)
    ELSE IF FloatGt(d, F(0)) THEN Distance(d)
    ELSE NoInterval

\* a faulty test that takes any non-zero POI field for a POI
PoiCandidateAnyNonZero(lat, lon, alt, mode) ==
    IF FloatNe(lon, F(0)) \/ FloatNe(lat, F(0)) \/ FloatNe(alt, F(0))
    THEN [some |-> TRUE, poi |-> POI(lat, lon, alt, mode)]
    ELSE [some |-> FALSE, poi |-> POI(F(0), F(0), F(0), mode)]

\* if poi_longitude != 0. && poi_latitude != 0. && poi_altitude != 0. { Some(POI) }
PoiCandidate(lat, lon, alt, mode) ==
    IF FloatNe(lon, F(0)) /\ FloatNe(lat, F(0)) /\ FloatNe(alt, F(0))
    THEN [some |-> TRUE, poi |-> POI(lat, lon, alt, mode)]
    ELSE [some |-> FALSE, poi |-> POI(F(0), F(0), F(0), mode)]

Sign(x) == IF x > 0 THEN 1 ELSE IF x < 0 THEN -1 ELSE 0

\* Coordinate::heading_towards: the bearing from one coordinate to another, here to
\* the nearest octant of the displacement (exact along a meridian and along the
\* equator); NaN when a coordinate is NaN
HeadingTowards(from, to) ==
    IF from.lat.nan \/ from.lon.nan \/ to.lat.nan \/ to.lon.nan THEN NaN
    ELSE LET dlat == Sign(to.lat.v - from.lat.v)
             dlon == Sign(to.lon.v - from.lon.v)
         IN CASE dlat = 1 /\ dlon = 0 -> F(0)
              [] dlat = 1 /\ dlon = 1 -> F(45)
              [] dlat = 0 /\ dlon = 1 -> F(90)
              [] dlat = -1 /\ dlon = 1 -> F(135)
              [] dlat = -1 /\ dlon = 0 -> F(180)
              [] dlat = -1 /\ dlon = -1 -> F(-135)
              [] dlat = 0 /\ dlon = -1 -> F(-90)
              [] dlat = 1 /\ dlon = -1 -> F(-45)
              [] OTHER -> F(0)

\* a faulty search that never finds the POI
PoiPositionNever(ps, poi) == [some |-> FALSE, idx |-> 0]

\* pois.iter().position(|search_poi| &poi == search_poi), 0-based
PoiPosition(ps, poi) ==
    LET hits == {i \in 1..Len(ps) : PoiEq(poi, ps[i])}
    IN IF hits = {} THEN None ELSE Some(Min(hits) - 1)

\* .position(..).unwrap_or_else(|| { pois.push(poi); pois.len() - 2 })
PoiIndex(ps, poi, bld) ==
    LET found == PoiPosition(ps, poi)
    IN IF found.some
       THEN [panic |-> FALSE, idx |-> found.idx, pois |-> ps]
       ELSE LET pushed == Append(ps, poi)
                sub == UsizeSub(Len(pushed), 2, bld)
            IN [panic |-> sub.panic, idx |-> sub.val, pois |-> pushed]

NoWaypoint ==
    Waypoint(Coordinate(F(0), F(0)), F(0), "", F(0), F(0), "", 0, F(0), None, <<>>, NoInterval, 0)

RowFail(e, ps) == [st |-> "err", err |-> e, waypoint |-> NoWaypoint, pois |-> ps]

\* the value parse_chunk! bound to the field at idx, once the whole chunk parsed
FloatAt(fields, i) == ParseChunkField(fields, i, "f64").fval

IntAt(fields, i) == ParseChunkField(fields, i, "i32").ival

\* the loop body from the decoding of the POI on: candidate, heading override,
\* POI index, and the waypoint that is pushed
RowTail(fields, gimbal_mode, altitude_mode, actions, poi_altitude_mode, ps, bld) ==
    LET coordinates == Coordinate(FloatAt(fields, 0), FloatAt(fields, 1))
        cand == PoiCandidate(FloatAt(fields, ACTIONS_END + 2), FloatAt(fields, ACTIONS_END + 3),
                             FloatAt(fields, ACTIONS_END + 4), poi_altitude_mode)
        heading == IF cand.some
                   THEN HeadingTowards(coordinates, Coordinate(cand.poi.latitude, cand.poi.longitude))
                   ELSE FloatAt(fields, 3)
        pi == IF cand.some THEN PoiIndex(ps, cand.poi, bld)
              ELSE [panic |-> FALSE, idx |-> 0, pois |-> ps]
    IN IF pi.panic
       THEN [st |-> "panic", err |-> NoError, waypoint |-> NoWaypoint, pois |-> pi.pois]
       ELSE [st |-> "ok", err |-> NoError, pois |-> pi.pois,
             waypoint |-> Waypoint(coordinates, FloatAt(fields, 2), altitude_mode, heading,
                                   FloatAt(fields, 4), gimbal_mode, IntAt(fields, 7),
                                   FloatAt(fields, ACTIONS_END + 1),
                                   IF cand.some THEN Some(pi.idx) ELSE None,
                                   actions,
                                   ResolvePhotoInterval(FloatAt(fields, ACTIONS_END + 6),
                                                        FloatAt(fields, ACTIONS_END + 7)),
                                   IntAt(fields, 5))]

\* the loop body after the first parse_chunk!: enum decoding, actions, then RowTail
RowDecode(fields, ps, bld) ==
    LET gimbal == GimbalPitchModeTryFrom(IntAt(fields, 6))
        alt == AltitudeModeTryFrom(IntAt(fields, ACTIONS_END))
        acts == DecodeActions(fields)
        palt == AltitudeModeTryFrom(IntAt(fields, ACTIONS_END + 5))
    IN IF ~gimbal.ok THEN RowFail(TryFromPrimitiveError(ToString(gimbal.number)), ps)
       ELSE IF ~alt.ok THEN RowFail(TryFromPrimitiveError(ToString(alt.number)), ps)
       ELSE IF ~acts.ok THEN RowFail(acts.err, ps)
       ELSE IF ~palt.ok THEN RowFail(TryFromPrimitiveError(ToString(palt.number)), ps)
       ELSE RowTail(fields, gimbal.variant, alt.variant, acts.actions, palt.variant, ps, bld)

\* one iteration of `for (record_index, record) in reader.records().enumerate()`
ProcessRow(item, ps, bld) ==
    IF ~item.csv_ok THEN RowFail(CsvError, ps)
    ELSE IF ~RecordLenOk(item.fields)
    THEN RowFail(IncorrectRecordLength(Len(item.fields), RECORD_LEN), ps)
    ELSE IF ParseChunkError(item.fields) # NoError
    THEN RowFail(ParseChunkError(item.fields), ps)
    ELSE RowDecode(item.fields, ps, bld)

(***************************************************************************)
(* The records the reader can yield.  A reader item is Err(csv::Error) or  *)
(* Ok(record); a record is the sequence of its fields.                     *)
(***************************************************************************)
Item(fields) == [csv_ok |-> TRUE, fields |-> fields]

CsvErrItem == [csv_ok |-> FALSE, fields |-> <<>>]

\* waypoint at (10, 20), altitude 5, heading 30, no action, no POI, no photo interval
BaseFields ==
    [j \in 1..RECORD_LEN |->
        CASE j = 1 -> IntField(10)
          [] j = 2 -> IntField(20)
          [] j = 3 -> IntField(5)
          [] j = 4 -> IntField(30)
          [] j > ACTIONS_OFFSET /\ j <= ACTIONS_END /\ (j - ACTIONS_OFFSET) % 2 = 1 -> IntField(-1)
          [] j = ACTIONS_END + 7 -> IntField(-1)
          [] j = ACTIONS_END + 8 -> IntField(-1)
          [] OTHER -> IntField(0)] \o <<>>

\* fields with the (0-based index, field) pairs of upd written over them
With(fields, upd) ==
    [j \in 1..Len(fields) |->
        IF \E u \in upd : u[1] = j - 1
        THEN (CHOOSE u \in upd : u[1] = j - 1)[2]
        ELSE fields[j]] \o <<>>

\* a record whose POI fields are lat, lon, alt (field text) and altitude mode code m
PoiFields(lat, lon, alt, m) ==
    With(BaseFields, {<<ACTIONS_END + 2, lat>>, <<ACTIONS_END + 3, lon>>,
                      <<ACTIONS_END + 4, alt>>, <<ACTIONS_END + 5, IntField(m)>>})

\* a record whose action slot i holds (type, param)
Slot(i, t, p) == {<<ACTIONS_OFFSET + 2 * i, IntField(t)>>, <<ACTIONS_OFFSET + 1 + 2 * i, IntField(p)>>}

\* well-formed records that differ in their POI fields
PoiRows ==
    << Item(BaseFields),
       Item(PoiFields(IntField(11), IntField(20), IntField(1), 0)),
       Item(PoiFields(IntField(11), IntField(20), IntField(1), 1)),
       Item(PoiFields(IntField(10), IntField(21), IntField(1), 0)),
       Item(PoiFields(NaNField, IntField(20), IntField(1), 0)),
       Item(PoiFields(IntField(0), IntField(20), IntField(1), 0)),
       Item(PoiFields(IntField(11), IntField(20), IntField(0), 1)),
       Item(PoiFields(IntField(11), IntField(0), IntField(1), 0)) >>

\* records and reader items with an error somewhere, among well-formed ones
ErrRows ==
    << Item(BaseFields),
       Item(PoiFields(IntField(11), IntField(20), IntField(1), 0)),
       CsvErrItem,
       Item(SubSeq(BaseFields, 1, RECORD_LEN - 1)),
       Item(Append(BaseFields, IntField(0))),
       Item(With(SubSeq(BaseFields, 1, RECORD_LEN - 1), {<<0, BadField>>})),
       Item(With(BaseFields, {<<0, BadField>>})),
       Item(With(BaseFields, {<<5, DecField(1500)>>})),
       Item(With(BaseFields, {<<ACTIONS_END, IntField(40000)>>})),
       Item(With(BaseFields, {<<6, IntField(3)>>})),
       Item(With(BaseFields, {<<6, IntField(-1)>>, <<ACTIONS_END, IntField(2)>>})),
       Item(With(BaseFields, {<<ACTIONS_END, IntField(2)>>})),
       Item(With(BaseFields, {<<ACTIONS_END + 5, IntField(2)>>})),
       Item(PoiFields(IntField(11), IntField(20), IntField(1), -1)),
       Item(With(BaseFields, Slot(0, 7, 0))),
       Item(With(BaseFields, Slot(0, 7, 0) \cup {<<6, IntField(3)>>})),
       Item(With(BaseFields, Slot(3, 7, 0) \cup {<<ACTIONS_END + 5, IntField(2)>>})) >>

\* records that differ in their action slots
ActRows ==
    << Item(BaseFields),
       Item(PoiFields(IntField(11), IntField(20), IntField(1), 0)),
       Item(With(BaseFields, Slot(0, 0, 1500))),
       Item(With(BaseFields, Slot(0, 1, 0))),
       Item(With(BaseFields, Slot(0, 2, 0) \cup Slot(1, 3, 0))),
       Item(With(BaseFields, Slot(3, 4, 90) \cup Slot(7, 5, -45))),
       Item(With(BaseFields, Slot(14, 5, 10) \cup Slot(2, 1, 7))),
       Item(With(BaseFields, UNION {Slot(i, 1, 0) : i \in 0..(ACTIONS_COUNT - 1)})),
       Item(With(BaseFields, Slot(0, 7, 0))),
       Item(With(BaseFields, Slot(0, 6, 0))),
       Item(With(BaseFields, Slot(14, -2, 0) \cup Slot(1, 1, 0))),
       Item(With(BaseFields, Slot(2, 9, 0) \cup Slot(5, 7, 0))),
       Item(With(BaseFields, {<<ACTIONS_OFFSET + 1, BadField>>, <<ACTIONS_OFFSET, IntField(7)>>})),
       Item(With(BaseFields, Slot(4, 8, 0) \cup {<<ACTIONS_OFFSET + 2, BadField>>})) >>

\* a record with the given photo time interval and photo distance interval
PhotoFields(t, d) == With(BaseFields, {<<ACTIONS_END + 6, t>>, <<ACTIONS_END + 7, d>>})

\* records that differ in their photo interval fields
PhotoRows ==
    << Item(BaseFields),
       Item(PhotoFields(IntField(2), IntField(-1))),
       Item(PhotoFields(IntField(-1), IntField(50))),
       Item(PhotoFields(IntField(2), IntField(50))),
       Item(PhotoFields(IntField(0), IntField(0))),
       Item(PhotoFields(IntField(0), IntField(50))),
       Item(PhotoFields(DecField(500), IntField(0))),
       Item(PhotoFields(DecField(-500), DecField(250))),
       Item(PhotoFields(NaNField, IntField(50))),
       Item(PhotoFields(NaNField, NaNField)),
       Item(PhotoFields(IntField(-1), NaNField)) >>

Rows == PoiRows \o ErrRows \o ActRows \o PhotoRows

\* the families as ranges of indices into Rows, each with its longest input
Families ==
    { <<1..Len(PoiRows), MaxRows>>,
      <<(Len(PoiRows) + 1)..(Len(PoiRows) + Len(ErrRows)), MaxErrRows>>,
      <<(Len(PoiRows) + Len(ErrRows) + 1)..(Len(PoiRows) + Len(ErrRows) + Len(ActRows)), MaxErrRows>>,
      <<(Len(Rows) - Len(PhotoRows) + 1)..Len(Rows), MaxErrRows>> }

\* the inputs: sequences of reader items of one family, named by their index in Rows
Inputs == UNION {UNION {[1..n -> fam[1]] : n \in 0..fam[2]} : fam \in Families}

(***************************************************************************)
(* read_from_csv as a state machine: `input` is what the reader yields,    *)
(* idx the number of items consumed, waypoints and pois the accumulators.  *)
(* `binary` is what to_binary returned for the mission, <<>> before.       *)
(***************************************************************************)
NoArgs == [waypoints |-> <<>>, pois |-> <<>>, config |-> DefaultConfig]

NoView == [op |-> "none", waypoints |-> <<>>, pois |-> <<>>, config |-> DefaultConfig]

Init ==
    /\ input \in Inputs
    /\ build \in {"debug", "release"}
    /\ idx = 0
    /\ waypoints = <<>>
    /\ pois = <<>>
    /\ pc = "loop"
    /\ result = NoResult
    /\ mission = NoMission
    /\ copy = NoMission
    /\ args = NoArgs
    /\ view = NoView
    /\ binary = <<>>

\* one turn of the loop over reader.records(): the record is consumed; an error
\* returns it, a panic unwinds, otherwise the waypoint is pushed
ProcessRecord ==
    /\ pc = "loop"
    /\ idx < Len(input)
    /\ LET out == ProcessRow(Rows[input[idx + 1]], pois, build)
       IN /\ idx' = idx + 1
          /\ pois' = out.pois
          /\ waypoints' = IF out.st = "ok" THEN Append(waypoints, out.waypoint) ELSE waypoints
          /\ pc' = CASE out.st = "ok" -> "loop"
                     [] out.st = "err" -> "done"
                     [] out.st = "panic" -> "panicked"
          /\ result' = IF out.st = "err" THEN Err(out.err) ELSE result
    /\ UNCHANGED <<input, build, mission, copy, args, view, binary>>

\* the reader is exhausted: LitchiMission::new(waypoints, pois, MissionConfig::default())
EndOfInput ==
    /\ pc = "loop"
    /\ idx = Len(input)
    /\ LET made == New(waypoints, pois, DefaultConfig)
       IN /\ result' = made.result
          /\ mission' = made.mission
    /\ pc' = "done"
    /\ UNCHANGED <<input, build, idx, waypoints, pois, copy, args, view, binary>>

\* the caller encodes the mission it was handed: mission.to_binary()
Encode ==
    /\ pc \in {"done", "held"}
    /\ mission.present
    /\ binary = <<>>
    /\ IF ToBinaryPanics(mission)
       THEN pc' = "panicked" /\ binary' = binary
       ELSE pc' = pc /\ binary' = ToBinary(mission)
    /\ UNCHANGED <<input, build, idx, waypoints, pois, result, mission, copy, args, view>>

Next == ProcessRecord \/ EndOfInput \/ Encode

Spec == Init /\ [][Next]_vars

(***************************************************************************)
(* What the properties say about an input record, read off its fields      *)
(***************************************************************************)
\* the i-th reader item of the input
Rec(i) == Rows[input[i]]

IntFieldIdx == {5, 6, 7, ACTIONS_END, ACTIONS_END + 5} \cup (ACTIONS_OFFSET..(ACTIONS_END - 1))

I16FieldIdx == {ACTIONS_END, ACTIONS_END + 5}

\* the field at 0-based index j is a literal of the type the schema gives it
FieldParses(fields, j) ==
    LET f == fields[j + 1]
    IN IF j \in I16FieldIdx THEN f.k = "int" /\ f.v >= I16Min /\ f.v <= I16Max
       ELSE IF j \in IntFieldIdx THEN f.k = "int" /\ f.v >= I32Min /\ f.v <= I32Max
       ELSE f.k \in {"int", "dec", "nan"}

HasWidth(item) == item.csv_ok /\ Len(item.fields) = RECORD_LEN

AllParse(item) == \A j \in 0..(RECORD_LEN - 1) : FieldParses(item.fields, j)

ActionTypesOk(item) ==
    \A a \in 0..(ACTIONS_COUNT - 1) : item.fields[ACTIONS_OFFSET + 2 * a + 1].v \in -1..5

EnumCodesOk(item) ==
    /\ item.fields[6 + 1].v \in 0..2
    /\ item.fields[ACTIONS_END + 1].v \in 0..1
    /\ item.fields[ACTIONS_END + 5 + 1].v \in 0..1

\* 46 fields, all numeric fields parse, enum codes and action types in range
WellFormed(item) ==
    HasWidth(item) /\ AllParse(item) /\ EnumCodesOk(item) /\ ActionTypesOk(item)

\* the POI candidate of a well-formed record: its POI fields, when all three are non-zero
CandOf(item) ==
    LET lat == FloatAt(item.fields, ACTIONS_END + 2)
        lon == FloatAt(item.fields, ACTIONS_END + 3)
        alt == FloatAt(item.fields, ACTIONS_END + 4)
        m == item.fields[ACTIONS_END + 5 + 1].v
    IN [some |-> FloatNe(lat, F(0)) /\ FloatNe(lon, F(0)) /\ FloatNe(alt, F(0)),
        poi |-> POI(lat, lon, alt, IF m = 0 THEN "Absolute" ELSE "AboveGround")]

\* poi_index is present and names an entry of ps
ValidIndex(poi_index, ps) == poi_index.some /\ poi_index.idx \in 0..(Len(ps) - 1)

\* Each record that was pushed as a waypoint is the record at the same place of the
\* input: a record is pushed or ends the ingestion.
RowsProcessed == Len(waypoints)

(***************************************************************************)
(* C2: for every input whose records are all well-formed, read_from_csv    *)
(* returns Ok(mission): it never fails with InvalidMission, never aborts,  *)
(* and every poi_index of the mission is a valid index into its POIs.      *)
(***************************************************************************)
C2_WellFormedIngestsOk ==
    (\A i \in 1..Len(input) : WellFormed(Rec(i))) =>
        /\ pc # "panicked"
        /\ pc = "done" =>
              /\ result = Ok
              /\ mission.present
              /\ \A w \in 1..Len(mission.waypoints) :
                    mission.waypoints[w].poi_index.some =>
                        ValidIndex(mission.waypoints[w].poi_index, mission.pois)

(***************************************************************************)
(* C3: when a record's POI candidate equals no POI collected before it,    *)
(* the candidate is appended and the record's waypoint has the index of    *)
(* the appended entry: pois[poi_index] is the candidate.                   *)
(***************************************************************************)
C3_NewPoiGetsItsOwnIndex ==
    \A i \in 1..RowsProcessed :
        LET c == CandOf(Rec(i))
        IN (c.some /\ \A j \in 1..(i - 1) : ~(CandOf(Rec(j)).some /\ PoiEq(CandOf(Rec(j)).poi, c.poi)))
           => /\ ValidIndex(waypoints[i].poi_index, pois)
              /\ pois[waypoints[i].poi_index.idx + 1] = c.poi

(***************************************************************************)
(* C4: two records with value-identical POI candidates yield exactly one   *)
(* POI entry and their waypoints carry the same, present, poi_index.       *)
(***************************************************************************)
C4_EqualCandidatesShareIndex ==
    \A i \in 1..RowsProcessed : \A j \in (i + 1)..RowsProcessed :
        LET ci == CandOf(Rec(i))
            cj == CandOf(Rec(j))
        IN (ci.some /\ cj.some /\ PoiEq(ci.poi, cj.poi))
           => /\ Cardinality({k \in 1..Len(pois) : PoiEq(pois[k], ci.poi)}) = 1
              /\ waypoints[i].poi_index.some
              /\ waypoints[j].poi_index.some
              /\ waypoints[i].poi_index = waypoints[j].poi_index

RECURSIVE FirstSeen(_)
\* the candidates of the first k records, each at its first encounter, in that order
FirstSeen(k) ==
    IF k = 0 THEN <<>>
    ELSE LET prev == FirstSeen(k - 1)
             c == CandOf(Rec(k))
         IN IF c.some /\ \A m \in 1..Len(prev) : ~PoiEq(prev[m], c.poi)
            THEN Append(prev, c.poi)
            ELSE prev

NoEqualPois(ps) == \A a \in 1..Len(ps) : \A b \in 1..Len(ps) : a # b => ~PoiEq(ps[a], ps[b])

\* the records whose POI stage has run: those pushed, and the one that panicked there
PoiStagesRun == Len(waypoints) + (IF pc = "panicked" THEN 1 ELSE 0)

(***************************************************************************)
(* C5: after any prefix of the records the POI list holds no two equal     *)
(* entries (equal as the code compares POIs), in the order of first        *)
(* encounter; a further record leaves the list unchanged or appends one    *)
(* entry at its end, never removing, reordering or changing an entry.      *)
(***************************************************************************)
C5_PoisFirstSeenAppendOnly ==
    [][ /\ NoEqualPois(pois')
        /\ pois' = FirstSeen(PoiStagesRun)'
        /\ \/ pois' = pois
           \/ /\ Len(pois') = Len(pois) + 1
              /\ SubSeq(pois', 1, Len(pois)) = pois ]_vars

\* three records ingested, the third repeating the POI of an earlier one, two POIs kept
C5_Witness ==
    /\ RowsProcessed = 3
    /\ Len(pois) = 2
    /\ \E i \in 1..2 : CandOf(Rec(i)).some /\ PoiEq(CandOf(Rec(i)).poi, CandOf(Rec(3)).poi)

(***************************************************************************)
(* C7: a record whose length is not 46 makes ingestion fail with           *)
(* IncorrectRecordLength(length, 46), before any field is parsed: also     *)
(* when its fields are not numeric.                                        *)
(***************************************************************************)
C7_LengthCheckedFirst ==
    \A i \in 1..idx :
        (Rec(i).csv_ok /\ Len(Rec(i).fields) # 46)
        => /\ i = idx
           /\ pc = "done"
           /\ result = Err(IncorrectRecordLength(Len(Rec(i).fields), 46))
           /\ ~mission.present

\* a record of 45 fields whose first field is not numeric has been rejected for its length
C7_Witness ==
    /\ idx >= 1
    /\ Rec(idx).csv_ok
    /\ Len(Rec(idx).fields) = 45
    /\ Rec(idx).fields[1].k = "bad"
    /\ pc = "done"
    /\ result.err.e = "IncorrectRecordLength"

\* a reader item or record that has an error of its own
HasError(item) == ~WellFormed(item)

\* the error read_from_csv returns for an erroneous record (it does not depend on the
\* POIs collected so far)
ErrorOf(item) == ProcessRow(item, <<>>, "release").err

(***************************************************************************)
(* C8: when some record of the input has an error, the result is the error *)
(* of the first such record, the records after it are not consumed, and no *)
(* mission is returned.                                                    *)
(***************************************************************************)
C8_FirstErrorIsTheResult ==
    LET bad == {i \in 1..Len(input) : HasError(Rec(i))}
    IN bad # {} =>
        /\ pc # "panicked"
        /\ idx <= Min(bad)
        /\ pc = "done" =>
              /\ idx = Min(bad)
              /\ result = Err(ErrorOf(Rec(Min(bad))))
              /\ ~mission.present

\* the fields of action slot a (0-based) of a record
SlotType(item, a) == item.fields[ACTIONS_OFFSET + 2 * a + 1]

SlotParam(item, a) == item.fields[ACTIONS_OFFSET + 2 * a + 2]

SlotReadable(item, a) == SlotType(item, a).k = "int" /\ SlotParam(item, a).k = "int"

\* the record reaches the decoding of its action slots
ReachesActions(item) ==
    /\ HasWidth(item)
    /\ \A j \in (0..(RECORD_LEN - 1)) \ (ACTIONS_OFFSET..(ACTIONS_END - 1)) : FieldParses(item.fields, j)
    /\ item.fields[6 + 1].v \in 0..2
    /\ item.fields[ACTIONS_END + 1].v \in 0..1

\* the action a slot of type t in 0..5 stands for (StayFor: milliseconds as seconds)
ExpectedAction(t, p) ==
    CASE t = 0 -> MkAction("StayFor", [nan |-> FALSE, v |-> p], 0)
      [] t = 1 -> MkAction("TakePhoto", F(0), 0)
      [] t = 2 -> MkAction("StartRecording", F(0), 0)
      [] t = 3 -> MkAction("StopRecording", F(0), 0)
      [] t = 4 -> MkAction("RotateAircraft", F(0), p)
      [] t = 5 -> MkAction("TiltCamera", F(0), p)

\* the slots that are not the sentinel, in slot order, each as its action
ExpectedActions(item) ==
    LET slots == [a \in 1..ACTIONS_COUNT |-> <<SlotType(item, a - 1).v, SlotParam(item, a - 1).v>>]
        kept == SelectSeq(slots, LAMBDA sl : sl[1] # -1)
    IN [k \in 1..Len(kept) |-> ExpectedAction(kept[k][1], kept[k][2])]

(***************************************************************************)
(* C9: a record that reaches action decoding: if the first slot, in slot   *)
(* order, that is not a sentinel or a type 0..5 holds type n, ingestion    *)
(* fails with InvalidActionType(n) and yields no mission; if every slot is *)
(* a sentinel or a type 0..5, the waypoint's actions are the non-sentinel  *)
(* slots in slot order, decoded as StayFor, TakePhoto, StartRecording,     *)
(* StopRecording, RotateAircraft(param), TiltCamera(param).                *)
(***************************************************************************)
C9_ActionSlotsDecoded ==
    \A i \in 1..idx :
        LET item == Rec(i)
            trouble == {a \in 0..(ACTIONS_COUNT - 1) :
                          ~SlotReadable(item, a) \/ SlotType(item, a).v \notin -1..5}
        IN ReachesActions(item) =>
             /\ (trouble # {} /\ SlotReadable(item, Min(trouble))) =>
                   /\ i = idx
                   /\ pc = "done"
                   /\ result = Err(InvalidActionType(SlotType(item, Min(trouble)).v))
                   /\ ~mission.present
             /\ (trouble = {} /\ i <= Len(waypoints)) =>
                   /\ waypoints[i].actions = ExpectedActions(item)
                   /\ Len(waypoints[i].actions) <= ACTIONS_COUNT

\* a record with actions in slots 3 and 7 became a waypoint with exactly those two,
\* and the next record, with type 7 in slot 0, failed carrying 7
C9_Witness ==
    /\ idx = 2
    /\ pc = "done"
    /\ result = Err(InvalidActionType(7))
    /\ SlotType(Rec(2), 0).v = 7
    /\ Len(waypoints) = 1
    /\ waypoints[1].actions = <<MkAction("RotateAircraft", F(0), 90), MkAction("TiltCamera", F(0), -45)>>

\* the decimal text of the enum codes the records use
NumText(n) ==
    CASE n = -1 -> "-1"
      [] n = 2 -> "2"
      [] n = 3 -> "3"

(***************************************************************************)
(* C10: a record that is well-formed but for an enum code: if the gimbal   *)
(* mode is outside 0..2, or the altitude mode outside 0..1, or the POI     *)
(* altitude mode outside 0..1 (also when the POI fields are zero),         *)
(* ingestion fails with TryFromPrimitiveError carrying the first such      *)
(* number; no waypoint with a default variant is produced.                 *)
(***************************************************************************)
C10_EnumCodesRejected ==
    \A i \in 1..idx :
        LET item == Rec(i)
            g == item.fields[6 + 1].v
            a == item.fields[ACTIONS_END + 1].v
            p == item.fields[ACTIONS_END + 5 + 1].v
        IN (HasWidth(item) /\ AllParse(item) /\ ActionTypesOk(item) /\ ~EnumCodesOk(item)) =>
             /\ i = idx
             /\ pc = "done"
             /\ Len(waypoints) = i - 1
             /\ ~mission.present
             /\ result = Err(TryFromPrimitiveError(
                    NumText(IF g \notin 0..2 THEN g ELSE IF a \notin 0..1 THEN a ELSE p)))

\* a record with no POI (all POI fields zero) and POI altitude mode 2 has been rejected
C10_Witness ==
    /\ idx >= 1
    /\ pc = "done"
    /\ HasWidth(Rec(idx))
    /\ AllParse(Rec(idx))
    /\ ~CandOf(Rec(idx)).some
    /\ Rec(idx).fields[ACTIONS_END + 5 + 1].v = 2
    /\ result = Err(TryFromPrimitiveError("2"))

(***************************************************************************)
(* The layout of an encoding, as a reader of the file walks it             *)
(***************************************************************************)
RECURSIVE WaypointInfoLen(_)
\* the length of the first waypoint section: 13 values per waypoint and 2 per action
WaypointInfoLen(ws) ==
    IF ws = <<>> THEN 0 ELSE 13 + 2 * Len(Head(ws).actions) + WaypointInfoLen(Tail(ws))

\* the number of values before the second waypoint pass: header and padding, the
\* waypoint count and section, the POI count and 3 values per POI
BeforeAltitudeInfo(m) == 8 + 10 + 1 + WaypointInfoLen(m.waypoints) + 1 + 3 * Len(m.pois)

\* the POI index written for waypoint j (1-based) in the second waypoint pass
WrittenPoiIndex(m, buf, j) == buf[BeforeAltitudeInfo(m) + 3 * (j - 1) + 3]

\* the text of a field is a zero
ZeroText(f) == f.k \in {"int", "dec"} /\ f.v = 0

\* POI latitude, POI longitude and POI altitude of the record are all three non-zero
AllThreeNonZero(item) ==
    \A j \in {ACTIONS_END + 2, ACTIONS_END + 3, ACTIONS_END + 4} : ~ZeroText(item.fields[j + 1])

(***************************************************************************)
(* C11: a record yields a POI candidate if and only if its POI latitude,   *)
(* POI longitude and POI altitude are all three non-zero.  For every       *)
(* record the loop takes through its POI stage: the waypoint pushed has a  *)
(* poi_index exactly when the three are non-zero (and a run that aborts in *)
(* the POI stage was working on such a record); a record where one of them *)
(* is zero leaves the POI list unchanged, and its waypoint is written with *)
(* POI index -1 in the second waypoint pass of to_binary.                  *)
(***************************************************************************)
C11_PoiCandidateIffAllNonZero ==
    [][ /\ (idx' = idx + 1 /\ pc' = "loop") =>
              /\ waypoints'[idx'].poi_index.some <=> AllThreeNonZero(Rec(idx'))
              /\ ~AllThreeNonZero(Rec(idx')) => pois' = pois
        /\ (idx' = idx + 1 /\ pc' = "panicked") => AllThreeNonZero(Rec(idx'))
        /\ (binary = <<>> /\ binary' # <<>>) =>
              \A j \in 1..Len(mission.waypoints) :
                 /\ mission.waypoints[j].poi_index.some <=> AllThreeNonZero(Rec(j))
                 /\ ~AllThreeNonZero(Rec(j)) =>
                       WrittenPoiIndex(mission, binary', j) = [ty |-> "i32", i |-> -1, f |-> F(0)]
      ]_vars

\* a mission was encoded whose two records have a zero in one POI field only, a
\* different field in each, and both waypoints are written with POI index -1
C11_Witness ==
    /\ binary # <<>>
    /\ Len(mission.waypoints) = 2
    /\ ZeroText(Rec(1).fields[ACTIONS_END + 2 + 1]) /\ ~ZeroText(Rec(1).fields[ACTIONS_END + 4 + 1])
    /\ ZeroText(Rec(2).fields[ACTIONS_END + 4 + 1]) /\ ~ZeroText(Rec(2).fields[ACTIONS_END + 2 + 1])
    /\ pois = <<>>
    /\ \A j \in 1..2 : WrittenPoiIndex(mission, binary, j).i = -1

\* the coordinate a record gives its waypoint: fields 0 and 1
CoordinateOf(item) == Coordinate(FloatAt(item.fields, 0), FloatAt(item.fields, 1))

\* the bearing from the waypoint of record i to the entry of ps its poi_index names
BearingToReferenced(i, ps) ==
    LET poi == ps[waypoints[i].poi_index.idx + 1]
    IN HeadingTowards(CoordinateOf(Rec(i)), Coordinate(poi.latitude, poi.longitude))

(***************************************************************************)
(* C12: for every ingested waypoint, if a POI is attached the heading is   *)
(* the bearing from the waypoint's coordinate to the coordinate of the POI *)
(* it references, whatever field 3 holds; if no POI is attached the        *)
(* heading is the value parsed from field 3.                               *)
(***************************************************************************)
C12_HeadingFollowsReferencedPoi ==
    \A i \in 1..RowsProcessed :
        IF waypoints[i].poi_index.some
        THEN /\ ValidIndex(waypoints[i].poi_index, pois)
             /\ waypoints[i].heading = BearingToReferenced(i, pois)
        ELSE waypoints[i].heading = FloatAt(Rec(i).fields, 3)

\* the text of a field is a number above zero
PositiveText(f) == f.k \in {"int", "dec"} /\ f.v > 0

\* the text of a field is a number that is zero or below
NonPositiveText(f) == f.k \in {"int", "dec"} /\ f.v <= 0

\* the photo time interval field and the photo distance interval field of a record
TimeField(item) == item.fields[ACTIONS_END + 6 + 1]

DistanceField(item) == item.fields[ACTIONS_END + 7 + 1]

(***************************************************************************)
(* C13: with t the parsed photo time interval and d the parsed photo       *)
(* distance interval of a record, its waypoint's photo interval is Time(t) *)
(* when t > 0 (whatever d is), Distance(d) when t <= 0 and d > 0, and      *)
(* absent when t <= 0 and d <= 0; it is one of absent, Time and Distance,  *)
(* never both kinds.                                                       *)
(***************************************************************************)
C13_PhotoIntervalResolved ==
    \A i \in 1..RowsProcessed :
        LET t == TimeField(Rec(i))
            d == DistanceField(Rec(i))
            w == waypoints[i]
        IN /\ PositiveText(t) => w.photo_interval = Time(FloatAt(Rec(i).fields, ACTIONS_END + 6))
           /\ (NonPositiveText(t) /\ PositiveText(d))
                 => w.photo_interval = Distance(FloatAt(Rec(i).fields, ACTIONS_END + 7))
           /\ (NonPositiveText(t) /\ NonPositiveText(d)) => w.photo_interval = NoInterval
           /\ w.photo_interval.k \in {"None", "Time", "Distance"}

\* two records ingested: both intervals positive gives Time(2), a zero time interval
\* with a positive distance interval gives Distance(50)
C13_Witness ==
    /\ RowsProcessed = 2
    /\ PositiveText(TimeField(Rec(1))) /\ PositiveText(DistanceField(Rec(1)))
    /\ waypoints[1].photo_interval = Time(F(2))
    /\ ZeroText(TimeField(Rec(2))) /\ PositiveText(DistanceField(Rec(2)))
    /\ waypoints[2].photo_interval = Distance(F(50))

RECURSIVE BlockStart(_, _)
\* where the block of waypoint k (1-based) starts in an encoding, found as a reader
\* does: after the header, the padding and the waypoint count, each block is 13 values
\* and then as many pairs as its action count says
BlockStart(buf, k) ==
    IF k = 1 THEN 8 + 10 + 1 + 1
    ELSE BlockStart(buf, k - 1) + 13 + 2 * buf[BlockStart(buf, k - 1) + 11].i

\* the types of the slots of a record that are not the sentinel, in slot order
NonSentinelTypes(item) ==
    SelectSeq([a \in 1..ACTIONS_COUNT |-> SlotType(item, a - 1).v], LAMBDA t : t # -1)

\* the i32 n as it stands in an encoding
WrittenI32(n) == [ty |-> "i32", i |-> n, f |-> F(0)]

(***************************************************************************)
(* C15: for every mission produced by ingestion and then encoded: the      *)
(* encoded waypoint count is the number of waypoints, which is the number  *)
(* of input records, and the blocks follow in record order; the encoded    *)
(* POI count is the number of POIs; each waypoint's encoded action count   *)
(* is the number of non-sentinel action slots of its record, is followed   *)
(* by exactly that many (code, param) pairs, and never exceeds 15.         *)
(***************************************************************************)
C15_EncodedCountsMatch ==
    binary # <<>> =>
        LET n == Len(mission.waypoints)
            np == Len(mission.pois)
            end == BlockStart(binary, n + 1)
        IN /\ n = Len(input)
           /\ binary[8 + 10 + 1] = WrittenI32(n)
           /\ \A k \in 1..n :
                 LET start == BlockStart(binary, k)
                     types == NonSentinelTypes(Rec(k))
                 IN /\ binary[start + 11] = WrittenI32(Len(types))
                    /\ Len(types) <= 15
                    /\ \A a \in 1..Len(types) :
                          /\ binary[start + 12 + 2 * a - 1] = WrittenI32(types[a])
                          /\ binary[start + 12 + 2 * a].ty = "i32"
           /\ binary[end] = WrittenI32(np)
           /\ np = Len(pois)
           /\ Len(binary) = end + 3 * np + 3 * n + 2 * np + 3 + 2 * (n + 1)

\* a mission of two records was encoded, the first with all 15 slots in use and the
\* second with two actions: the counts written are 2, 15 and 2
C15_Witness ==
    /\ binary # <<>>
    /\ Len(mission.waypoints) = 2
    /\ Len(NonSentinelTypes(Rec(1))) = 15
    /\ Len(NonSentinelTypes(Rec(2))) = 2
    /\ binary[BlockStart(binary, 1) + 11].i = 15
    /\ binary[BlockStart(binary, 2) + 11].i = 2
    /\ BlockStart(binary, 2) = BlockStart(binary, 1) + 13 + 30

(***************************************************************************)
(* LitchiMission's public interface as a state machine: a caller builds a  *)
(* mission with new or Default, may clone it, and uses the accessors and   *)
(* config_mut.  `mission` is the value built, `copy` its clone, `args` the *)
(* arguments new was called with, `view` what the last accessor returned.  *)
(***************************************************************************)
PlainPoi == POI(F(11), F(20), F(1), "Absolute")

\* a waypoint as a caller may build one (the fields of Waypoint are public):
\* plausible, or with coordinates, heading and speed out of any range and an action
CallerWaypoint(poi_index, extreme) ==
    IF extreme
    THEN Waypoint(Coordinate(F(1000), F(-1000)), F(5), "Absolute", F(720), F(0), "Disabled", 0,
                  F(9999), poi_index, <<MkAction("TakePhoto", F(0), 0)>>, NoInterval, 0)
    ELSE Waypoint(Coordinate(F(10), F(20)), F(5), "Absolute", F(30), F(0), "Disabled", 0,
                  F(8), poi_index, <<>>, NoInterval, 0)

\* Option<usize> values around the POI count, and usize::MAX
CallerPoiIndexes == {None, Some(-1)} \cup {Some(i) : i \in 0..MaxPois}

CallerWaypoints == {CallerWaypoint(pix, x) : pix \in CallerPoiIndexes, x \in BOOLEAN}

WaypointLists == UNION {[1..n -> CallerWaypoints] : n \in 0..MaxWps}

PoiLists == UNION {[1..n -> {PlainPoi}] : n \in 0..MaxPois}

Configs ==
    {[DefaultConfig EXCEPT !.cruising_speed = cs, !.photo_interval = pi] :
        cs \in {F(8), F(100)}, pi \in {NoInterval, Distance(F(50))}}

InitMission ==
    /\ input = <<>>
    /\ build = "release"
    /\ idx = 0
    /\ waypoints = <<>>
    /\ pois = <<>>
    /\ pc = "call"
    /\ result = NoResult
    /\ mission = NoMission
    /\ copy = NoMission
    /\ args = NoArgs
    /\ view = NoView
    /\ binary = <<>>

\* LitchiMission::new(waypoints, pois, config) with arguments of the caller's choice
CallNew ==
    /\ pc = "call"
    /\ \E ws \in WaypointLists, ps \in PoiLists, c \in {DefaultConfig, [DefaultConfig EXCEPT !.cruising_speed = F(100)]} :
          LET made == New(ws, ps, c)
          IN /\ args' = [waypoints |-> ws, pois |-> ps, config |-> c]
             /\ result' = made.result
             /\ mission' = made.mission
             /\ pc' = IF made.result = Ok THEN "held" ELSE "failed"
    /\ UNCHANGED <<input, build, idx, waypoints, pois, copy, view, binary>>

\* LitchiMission::default()
CallDefault ==
    /\ pc = "call"
    /\ mission' = DefaultMission
    /\ pc' = "held"
    /\ UNCHANGED <<input, build, idx, waypoints, pois, result, copy, args, view, binary>>

\* #[derive(Clone)]: mission.clone()
Clone ==
    /\ pc = "held"
    /\ ~copy.present
    /\ copy' = mission
    /\ UNCHANGED <<input, build, idx, waypoints, pois, pc, result, mission, args, view, binary>>

\* a faulty config_mut that also empties the POIs
SetConfigAndDropPois(m, c) == [m EXCEPT !.config = c, !.pois = <<>>]

\* *m.config_mut() = c: the &mut MissionConfig reaches the configuration only
SetConfig(m, c) == [m EXCEPT !.config = c]

\* config_mut on the mission; a reference an accessor returned cannot outlive it
ConfigMut ==
    /\ pc = "held"
    /\ \E c \in Configs : mission' = SetConfig(mission, c)
    /\ view' = NoView
    /\ UNCHANGED <<input, build, idx, waypoints, pois, pc, result, copy, args, binary>>

\* config_mut on the clone
ConfigMutCopy ==
    /\ pc = "held"
    /\ copy.present
    /\ \E c \in Configs : copy' = SetConfig(copy, c)
    /\ UNCHANGED <<input, build, idx, waypoints, pois, pc, result, mission, args, view, binary>>

\* the accessors waypoints(), pois() and config(): shared references, nothing changes
Accessor ==
    /\ pc = "held"
    /\ view' \in {[NoView EXCEPT !.op = "waypoints", !.waypoints = mission.waypoints],
                  [NoView EXCEPT !.op = "pois", !.pois = mission.pois],
                  [NoView EXCEPT !.op = "config", !.config = mission.config]}
    /\ UNCHANGED <<input, build, idx, waypoints, pois, pc, result, mission, copy, args, binary>>

NextMission == CallNew \/ CallDefault \/ Clone \/ ConfigMut \/ ConfigMutCopy \/ Accessor

SpecMission == InitMission /\ [][NextMission]_vars

(***************************************************************************)
(* C1: LitchiMission::new returns Ok(mission) exactly when every waypoint  *)
(* whose poi_index is present has poi_index < number of POIs; otherwise it *)
(* returns Err(InvalidMission) and no mission.  Coordinates, heading,      *)
(* speed, actions and configuration have no influence.                     *)
(***************************************************************************)
C1_NewOkIffIndexesValid ==
    pc \in {"held", "failed"} /\ result # NoResult =>
        IF \A w \in 1..Len(args.waypoints) :
               args.waypoints[w].poi_index.some =>
                   args.waypoints[w].poi_index.idx \in 0..(Len(args.pois) - 1)
        THEN /\ result = Ok
             /\ pc = "held"
             /\ mission.present
             /\ mission.waypoints = args.waypoints
             /\ mission.pois = args.pois
        ELSE /\ result = Err(InvalidMission)
             /\ pc = "failed"
             /\ ~mission.present

\* new accepted waypoints with out-of-range coordinates, heading and speed whose
\* poi_index is the last valid one
C1_Witness ==
    /\ pc = "held"
    /\ result = Ok
    /\ Len(args.pois) = 2
    /\ Len(args.waypoints) = 2
    /\ args.waypoints[1] = CallerWaypoint(Some(1), TRUE)

\* every present poi_index of m names one of m's POIs
IndexesValid(m) ==
    \A w \in 1..Len(m.waypoints) :
        m.waypoints[w].poi_index.some => m.waypoints[w].poi_index.idx \in 0..(Len(m.pois) - 1)

(***************************************************************************)
(* C6: in every state of a LitchiMission value (from new, Default or       *)
(* Clone, then any config_mut and accessor calls) every present poi_index  *)
(* is a valid index into the POIs; no operation changes the waypoints or   *)
(* the POIs of a mission once it exists; config_mut changes the            *)
(* configuration only.                                                     *)
(***************************************************************************)
C6_MissionStaysValid ==
    [][ /\ mission'.present => IndexesValid(mission')
        /\ copy'.present => IndexesValid(copy')
        /\ mission.present =>
              /\ mission'.present
              /\ mission'.waypoints = mission.waypoints
              /\ mission'.pois = mission.pois
        /\ copy.present =>
              /\ copy'.present
              /\ copy'.waypoints = copy.waypoints
              /\ copy'.pois = copy.pois
        /\ (~copy.present /\ copy'.present) => copy' = mission ]_vars

\* a mission with a POI reference and its clone, whose configurations were changed
\* through config_mut to different values
C6_Witness ==
    /\ mission.present
    /\ copy.present
    /\ Len(mission.pois) = 2
    /\ \E w \in 1..Len(mission.waypoints) : mission.waypoints[w].poi_index = Some(1)
    /\ mission.config.cruising_speed = F(100)
    /\ copy.config.photo_interval = Distance(F(50))
    /\ mission.config # copy.config
    /\ mission.config # args.config

(***************************************************************************)
(* Encoding missions a caller has built: new or Default, config_mut with   *)
(* speeds and photo intervals of the caller's choice, and to_binary.  The  *)
(* bytes of an encoding are dropped before the configuration is changed    *)
(* again, so `binary` is always the encoding of the mission as it stands.  *)
(***************************************************************************)
\* a waypoint with a StayFor action and the given photo interval
IntervalWaypoint(photo_interval) ==
    Waypoint(Coordinate(F(10), F(20)), F(5), "AboveGround", F(30), F(0), "Interpolate", -45,
             F(8), None, <<MkAction("StayFor", [nan |-> FALSE, v |-> 1500], 0)>>, photo_interval, 0)

WaypointsToEncode ==
    {CallerWaypoint(None, FALSE), CallerWaypoint(Some(0), TRUE),
     IntervalWaypoint(Time(F(2))), IntervalWaypoint(Distance(F(30)))}

WaypointListsToEncode == UNION {[1..n -> WaypointsToEncode] : n \in 0..MaxWps}

\* speeds inside, at and beyond the bounds and NaN; no, a distance and a time interval
ConfigsToEncode ==
    {[DefaultConfig EXCEPT !.cruising_speed = cs, !.rc_speed = rc, !.photo_interval = pi] :
        cs \in {F(8), F(-15), F(100), F(-100), [nan |-> FALSE, v |-> 15001], NaN},
        rc \in {F(14), F(2), F(100), [nan |-> FALSE, v |-> 1999]},
        pi \in {NoInterval, Distance(F(50)), Time(F(3))}}

\* LitchiMission::new with waypoints that carry photo intervals and actions
CallNewToEncode ==
    /\ pc = "call"
    /\ \E ws \in WaypointListsToEncode, ps \in PoiLists :
          LET made == New(ws, ps, DefaultConfig)
          IN /\ args' = [waypoints |-> ws, pois |-> ps, config |-> DefaultConfig]
             /\ result' = made.result
             /\ mission' = made.mission
             /\ pc' = IF made.result = Ok THEN "held" ELSE "failed"
    /\ UNCHANGED <<input, build, idx, waypoints, pois, copy, view, binary>>

\* config_mut with any of the configurations above
ConfigMutToEncode ==
    /\ pc = "held"
    /\ \E c \in ConfigsToEncode : mission' = SetConfig(mission, c)
    /\ binary' = <<>>
    /\ UNCHANGED <<input, build, idx, waypoints, pois, pc, result, copy, args, view>>

NextEncode == CallNewToEncode \/ CallDefault \/ ConfigMutToEncode \/ Encode

SpecEncode == InitMission /\ [][NextEncode]_vars

\* the pair of float32 the format has for a photo interval
ExpectedPair(interval) ==
    CASE interval.k = "Time" -> <<[ty |-> "f32", i |-> 0, f |-> interval.val], [ty |-> "f32", i |-> 0, f |-> F(-1)]>>
      [] interval.k = "Distance" -> <<[ty |-> "f32", i |-> 0, f |-> F(-1)], [ty |-> "f32", i |-> 0, f |-> interval.val]>>
      [] interval.k = "None" -> <<[ty |-> "f32", i |-> 0, f |-> F(-1)], [ty |-> "f32", i |-> 0, f |-> F(-1)]>>

\* the number of values before the photo interval section: everything up to the
\* second waypoint pass, 3 values per waypoint, 2 per POI, and the 3 magic numbers
BeforeIntervals(m) == BeforeAltitudeInfo(m) + 3 * Len(m.waypoints) + 2 * Len(m.pois) + 3

\* pair k of the photo interval section of an encoding, pair 0 being the first
IntervalPair(m, buf, k) == SubSeq(buf, BeforeIntervals(m) + 2 * k + 1, BeforeIntervals(m) + 2 * k + 2)

(***************************************************************************)
(* C14: the photo interval section is the end of to_binary's output and    *)
(* consists of exactly 1 + (number of waypoints) pairs of float32: the     *)
(* pair of the mission-level interval first, then one pair per waypoint in *)
(* waypoint order, each pair being (seconds, -1.0) for Time(seconds),      *)
(* (-1.0, meters) for Distance(meters) and (-1.0, -1.0) when absent.       *)
(***************************************************************************)
C14_PhotoIntervalSection ==
    binary # <<>> =>
        LET n == Len(mission.waypoints)
        IN /\ Len(binary) = BeforeIntervals(mission) + 2 * (1 + n)
           /\ SubSeq(binary, BeforeIntervals(mission) - 2, BeforeIntervals(mission))
                 = <<WrittenI32(8), WrittenI32(8), WrittenI32(0)>>
           /\ IntervalPair(mission, binary, 0) = ExpectedPair(mission.config.photo_interval)
           /\ \A k \in 1..n :
                 IntervalPair(mission, binary, k) = ExpectedPair(mission.waypoints[k].photo_interval)

\* the mission-level interval is Distance(50), the first waypoint has none and the
\* second has Time(2): the section is (-1, 50), (-1, -1), (2, -1)
C14_Witness ==
    /\ binary # <<>>
    /\ mission.config.photo_interval = Distance(F(50))
    /\ Len(mission.waypoints) = 2
    /\ mission.waypoints[1].photo_interval = NoInterval
    /\ mission.waypoints[2].photo_interval = Time(F(2))
    /\ SubSeq(binary, Len(binary) - 5, Len(binary))
          = PutF32(F(-1)) \o PutF32(F(50)) \o PutF32(F(-1)) \o PutF32(F(-1))
            \o PutF32(F(2)) \o PutF32(F(-1))

\* x is a number between lo and hi, both included, all in thousandths
Within(x, lo, hi) == ~x.nan /\ x.v >= lo /\ x.v <= hi

\* what the claim has written for the stored value x and the range lo..hi
NearestInRange(x, lo, hi) ==
    IF x.nan THEN x
    ELSE IF x.v < lo THEN [nan |-> FALSE, v |-> lo]
    ELSE IF x.v > hi THEN [nan |-> FALSE, v |-> hi]
    ELSE x

(***************************************************************************)
(* C16: for every configuration, including one set through config_mut to   *)
(* extreme values, the cruising speed to_binary writes lies in [-15, 15]   *)
(* and the RC speed it writes lies in [2, 15]: a stored value inside the   *)
(* range is written unchanged, one outside it as the nearest bound; the    *)
(* encoding leaves the stored configuration as it was.                     *)
(***************************************************************************)
C16_SpeedsClampedOnWrite ==
    [][ (binary = <<>> /\ binary' # <<>>) =>
           /\ binary'[5].ty = "f32"
           /\ Within(binary'[5].f, -15000, 15000)
           /\ binary'[5].f = NearestInRange(mission.config.cruising_speed, -15000, 15000)
           /\ binary'[6].ty = "f32"
           /\ Within(binary'[6].f, 2000, 15000)
           /\ binary'[6].f = NearestInRange(mission.config.rc_speed, 2000, 15000)
           /\ mission' = mission ]_vars

====
